---- MODULE Spec2Model ----
(***************************************************************************)
(* Trackwise /api/state: the GitHub-backed dashboard state store.          *)
(*                                                                         *)
(* The handler of src/unnamed/part_000 is modelled as a set of request     *)
(* slots, each running one request at a time.  Every `await fetch` of the  *)
(* handler is one atomic step against the repository (the dashboard files  *)
(* and the manifest file); the code between two fetches runs with the      *)
(* step of the fetch that precedes it.                                     *)
(*                                                                         *)
(* The repository is the GitHub contents API the handler calls.  A file's  *)
(* sha is the git blob sha, a function of the file's content alone.  The   *)
(* source does not fix the answer to a PUT that carries no sha while the   *)
(* file exists (the handler only omits the field): both answers, a         *)
(* rejection and an overwrite, are modelled, chosen once per deployment    *)
(* by the variable noShaOverwrites.                                        *)
(*                                                                         *)
(* A backend call can also fail: the repository answers with a non-2xx,    *)
(* non-404 status and the client function returns { error }, or the fetch  *)
(* rejects before the repository has acted and the exception reaches the   *)
(* handler's catch.                                                        *)
(***************************************************************************)
EXTENDS Integers, Sequences, FiniteSets, TLC

\* ------------------------------------------------------------- bounds
\* Requests started in one behaviour.
MaxReqs == 2
\* Largest value of the wall clock.
MaxClock == 1
\* Backend calls that may fail: answer with a non-2xx, non-404 status, or
\* have their fetch reject.
MaxFaults == 1
\* Longest raw id enumerated exhaustively in the id scenario.
MaxIdLen == 3

\* --------------------------------------------------- program constants
\* /^[a-zA-Z0-9_-]{3,80}$/
MinDashIdLen == 3
MaxDashIdLen == 80

Procs == {"r1", "r2"}

Min(a, b) == IF a < b THEN a ELSE b

RECURSIVE Rep(_, _)
Rep(c, n) == IF n = 0 THEN <<>> ELSE <<c>> \o Rep(c, n - 1)

\* ------------------------------------------------------------ JSON values
\* A JSON value as the handler sees it: null, a string, a number, or an
\* object whose only inspected part is __meta.name.
\*   t: "null" | "str" | "num" | "obj"
\*   m: for an object, the shape of __meta.name:
\*      "none" (no __meta), "noname", "str" (a string), "num" (a number)
\*   v: the text of the string or number
JVal(t, m, v) == [t |-> t, m |-> m, v |-> v]
JNull == JVal("null", "", "")
\* The value of a response field that is not present.
JUndef == JVal("undef", "", "")
\* What JSON.parse throws on.
JThrow == JVal("throw", "", "")

AllStates ==
  { JNull,
    JVal("str", "", "hello"),
    JVal("num", "", "42"),
    JVal("obj", "none", ""),
    JVal("obj", "noname", ""),
    JVal("obj", "str", "Sales"),
    JVal("obj", "str", ""),
    JVal("obj", "num", "7"),
    JVal("obj", "num", "0") }

\* (the same with a slip: that writes every name as a string)
JSONstringifyNamesAsStrings(x) ==
  CASE x.t = "null" -> <<"null">>
    [] x.t = "str" -> <<"\"", x.v, "\"">>
    [] x.t = "num" -> <<x.v>>
    [] x.t = "obj" /\ x.m = "none" -> <<"{", "}">>
    [] x.t = "obj" /\ x.m = "noname" -> <<"{", "__meta", ":", "{", "}", "}">>
    [] OTHER -> <<"{", "__meta", ":", "{", "name", ":", "\"", x.v, "\"", "}", "}">>

\* JSON.stringify(state, null, 2): the text as a sequence of tokens.
JSONstringify(x) ==
  CASE x.t = "null" -> <<"null">>
    [] x.t = "str" -> <<"\"", x.v, "\"">>
    [] x.t = "num" -> <<x.v>>
    [] x.t = "obj" /\ x.m = "none" -> <<"{", "}">>
    [] x.t = "obj" /\ x.m = "noname" -> <<"{", "__meta", ":", "{", "}", "}">>
    [] x.t = "obj" /\ x.m = "str" ->
         <<"{", "__meta", ":", "{", "name", ":", "\"", x.v, "\"", "}", "}">>
    [] x.t = "obj" /\ x.m = "num" ->
         <<"{", "__meta", ":", "{", "name", ":", x.v, "}", "}">>
    [] OTHER -> <<"undefined">>

\* JSON.parse of a document text; JThrow when the text is not JSON.
JSONparse(txt) ==
  LET n == Len(txt) IN
  CASE n = 1 /\ txt[1] = "null" -> JNull
    [] n = 1 /\ txt[1] \notin {"null", "undefined", "garbage"} -> JVal("num", "", txt[1])
    [] n = 3 /\ txt[1] = "\"" /\ txt[3] = "\"" -> JVal("str", "", txt[2])
    [] n = 2 /\ txt = <<"{", "}">> -> JVal("obj", "none", "")
    [] n = 6 /\ txt = <<"{", "__meta", ":", "{", "}", "}">> -> JVal("obj", "noname", "")
    [] n = 11 /\ SubSeq(txt, 1, 7) = <<"{", "__meta", ":", "{", "name", ":", "\"">>
             /\ SubSeq(txt, 9, 11) = <<"\"", "}", "}">> -> JVal("obj", "str", txt[8])
    [] n = 9 /\ SubSeq(txt, 1, 6) = <<"{", "__meta", ":", "{", "name", ":">>
            /\ SubSeq(txt, 8, 9) = <<"}", "}">> -> JVal("obj", "num", txt[7])
    [] OTHER -> JThrow

\* ---------------------------------------------------------------- base64
\* Buffer.from(str, 'utf8').toString('base64'): every token is encoded.
toBase64(str) == [i \in 1..Len(str) |-> <<"b64", str[i]>>]

\* Buffer.from(b64, 'base64').toString('utf8')
fromBase64(b64) == [i \in 1..Len(b64) |-> b64[i][2]]

\* The contents API returns base64 broken into lines.
LineLen == 2
RECURSIVE WrapLines(_)
WrapLines(b64) ==
  IF Len(b64) <= LineLen THEN b64 \o <<(<<"nl", "\n">>)>>
  ELSE SubSeq(b64, 1, LineLen) \o <<(<<"nl", "\n">>)>>
       \o WrapLines(SubSeq(b64, LineLen + 1, Len(b64)))

\* (the same with a slip: that keeps the line breaks)
StripNothing(content) == content

\* String(data.content || '').split('\n').join('')
StripNewlines(content) == SelectSeq(content, LAMBDA c : c[1] # "nl")

\* ------------------------------------------------------------------ ids
\* The characters of the ids: [a-zA-Z0-9_-] is represented by a lower-case
\* letter, an upper-case letter, a digit, the underscore and the hyphen; a raw
\* dash parameter may also hold a blank and the disallowed "!".
AllowedChars == {"a", "Z", "7", "_", "-"}
Blank == " "

\* String.prototype.trim
RECURSIVE TrimLeft(_)
TrimLeft(s) == IF s # <<>> /\ Head(s) = Blank THEN TrimLeft(Tail(s)) ELSE s
RECURSIVE TrimRight(_)
TrimRight(s) ==
  IF s # <<>> /\ s[Len(s)] = Blank THEN TrimRight(SubSeq(s, 1, Len(s) - 1)) ELSE s
Trim(s) == TrimRight(TrimLeft(s))

\* safeDashId's answer for "no id".
NoId == <<>>

\* safeDashId(id): the trimmed id, or NoId (null).  A missing parameter is
\* the empty sequence: String(id || '') is ''.
\* (the same with a slip: without the lower length bound)
safeDashIdNoLower(id) ==
  LET s == Trim(id) IN
  IF s = <<>> THEN NoId
  ELSE IF Len(s) <= MaxDashIdLen /\ \A i \in 1..Len(s) : s[i] \in AllowedChars
       THEN s ELSE NoId
safeDashId(id) ==
  LET s == Trim(id) IN
  IF s = <<>> THEN NoId
  ELSE IF Len(s) >= MinDashIdLen /\ Len(s) <= MaxDashIdLen
          /\ \A i \in 1..Len(s) : s[i] \in AllowedChars
       THEN s ELSE NoId

\* ---------------------------------------------------------------- files
\* A file of the repository: absent, or present with its text.
File(txt) == [exists |-> TRUE, text |-> txt]
Absent == [exists |-> FALSE, text |-> <<>>]

\* The blob sha of a text; NoSha is the handler's null.
Sha(txt) == [some |-> TRUE, of |-> txt]
NoSha == [some |-> FALSE, of |-> <<>>]

\* A manifest entry { id, name, updatedAt }.
Entry(id, name, now) == [id |-> id, name |-> name, updatedAt |-> now]

\* JSON.stringify(list, null, 2) of a manifest list.
stringifyList(list) == <<"[">> \o list \o <<"]">>

\* Manifest texts that are not a JSON array: valid JSON of another shape,
\* and text that does not parse.
NotArrayText == <<"{", "}">>
UnparsableText == <<"garbage">>

\* Whether a manifest text is a JSON array.
IsArrayText(txt) == Len(txt) >= 2 /\ txt[1] = "[" /\ txt[Len(txt)] = "]"

\* (the same with a slip: that takes every text for corrupt)
parseListEmpty(txt) == <<>>

\* JSON.parse(txt) with Array.isArray(list) ? list : [], [] on a throw.
parseList(txt) ==
  IF IsArrayText(txt)
  THEN SubSeq(txt, 2, Len(txt) - 1)
  ELSE <<>>

\* --------------------------------------------------------------- state
VARIABLES
  docs,             \* dashboard id -> the file data/dashboards/<id>.json
  manifest,         \* the file data/manifest.json
  clock,            \* the wall clock new Date() reads
  env,              \* the deployment's configuration: "ok", "missing", "slash"
  noShaOverwrites,  \* the repository's answer to a PUT without sha on a file
  scen,             \* which requests the clients send: "conc", "seq", "ids",
                    \* "json", "corrupt"
  proc,             \* request slot -> the invocation running in it
  nreq,             \* requests started so far
  nfault,           \* backend faults so far
  hist              \* history, read by the properties only:
                    \*   lastPut[id]  the state of the last accepted document
                    \*                write of id, JUndef after a delete
                    \*   lastOk[id]   the updatedAt of the last POST of id that
                    \*                answered 200 since id's document was last
                    \*                deleted, -1 when there is none
                    \*   overlapped   two requests have been in flight at once

vars == <<docs, manifest, clock, env, noShaOverwrites, scen, proc, nreq, nfault, hist>>

\* ------------------------------------------------------------ the inputs
ABC == <<"a", "Z", "7">>
XYZ == <<"_", "-", "a">>
QRS == <<"7", "7", "7">>

RECURSIVE SeqsUpTo(_, _)
SeqsUpTo(S, n) ==
  IF n = 0 THEN {<<>>}
  ELSE LET shorter == SeqsUpTo(S, n - 1) IN
       shorter \cup {Append(s, c) : s \in {t \in shorter : Len(t) = n - 1}, c \in S}

\* The raw dash parameters of a scenario.
RawIds(sc) ==
  CASE sc = "conc" -> {ABC, XYZ, <<"a", "Z">>}
    [] sc = "seq" -> {ABC, XYZ, QRS, <<Blank>> \o ABC}
    [] sc = "json" -> {ABC}
    [] sc = "corrupt" -> {ABC, XYZ}
    [] OTHER ->
        SeqsUpTo({"a", Blank, "!"}, MaxIdLen)
        \cup {ABC, <<Blank, "a", "a", "a">>, <<"a", "a", "a", Blank>>,
              <<Blank, "a", "a", Blank>>,
              Rep("a", MaxDashIdLen), Rep("a", MaxDashIdLen + 1),
              <<Blank>> \o Rep("a", MaxDashIdLen),
              Rep("a", MaxDashIdLen - 1) \o <<"!">>}

\* The dashboard ids the requests of a scenario can name.
Keys(sc) == {safeDashId(r) : r \in RawIds(sc)} \ {NoId}

\* The request slots a scenario uses.
Active(sc) == IF sc \in {"conc", "json", "corrupt"} THEN Procs ELSE {"r1"}

\* The requests a scenario's clients send.
Budget(sc) ==
  CASE sc = "seq" -> MaxReqs + 2
    [] sc = "ids" -> MaxReqs - 1
    [] OTHER -> MaxReqs

\* The states a scenario's POST bodies carry.
States(sc) ==
  CASE sc = "conc" -> {JNull, JVal("obj", "str", "Sales")}
    [] sc = "seq" -> {JNull, JVal("obj", "str", "Sales")}
    [] sc = "json" -> AllStates
    [] sc = "corrupt" -> {JVal("obj", "str", "Sales")}
    [] OTHER -> {JVal("num", "", "42")}

Methods == {"GET", "POST", "DELETE", "OPTIONS", "PUT"}

\* ------------------------------------------------------------ responses
\* res.status(..).json(..): the fields a response body can carry.
\*   deleted, exists: "absent" (no such field), "true", "false"
Body(error, ok, deleted, exists, state, dashboards, commit) ==
  [error |-> error, ok |-> ok, deleted |-> deleted, exists |-> exists,
   state |-> state, dashboards |-> dashboards, commit |-> commit]
NoBody == Body("", FALSE, "absent", "absent", JUndef, <<>>, FALSE)
ErrorBody(msg) == Body(msg, FALSE, "absent", "absent", JUndef, <<>>, FALSE)

\* ---------------------------------------------------------- invocations
\* A request slot.  pc is the await the invocation is suspended at:
\*   "idle"      no request yet
\*   "list_load" GET ?list : loadManifest                      (line 130)
\*   "get_doc"   GET       : ghGetFile                         (line 139)
\*   "post_get"  POST      : ghGetFile                         (line 157)
\*   "post_put"  POST      : ghPutFile                         (line 161)
\*   "post_man"  POST      : loadManifest                      (line 164)
\*   "post_save" POST      : saveManifest                      (line 175)
\*   "del_get"   DELETE    : ghGetFile                         (line 186)
\*   "del_del"   DELETE    : ghDeleteFile                      (line 190)
\*   "del_man"   DELETE    : loadManifest                      (line 193)
\*   "del_save"  DELETE    : saveManifest                      (line 196)
\*   "done"      the response is sent
\* nget, nput, ndel count the invocation's backend calls.  docRace and
\* manRace record what other invocations did to the file between this
\* invocation's read of it and its write: "no", "put" (only document
\* writes of POSTs), "other".  dfound and mfound record what the
\* invocation's read of the document and its manifest load found: "none" (no
\* read), "error" (an error answer), "thrown" (the fetch rejected), "absent",
\* and for a file that exists "present" or "unparsable" (document), "array"
\* or "corrupt" (manifest).  docWrite and manWrite record the invocation's
\* own write: "none", "ok" (accepted), "rej" (answered with an error),
\* "thrown" (the fetch rejected).
Idle ==
  [pc |-> "idle", method |-> "", dash |-> <<>>, list |-> FALSE, state |-> JUndef,
   id |-> NoId, sha |-> NoSha, mexists |-> FALSE, msha |-> NoSha, mlist |-> <<>>,
   now |-> 0,
   status |-> 0, body |-> NoBody, nget |-> 0, nput |-> 0, ndel |-> 0,
   docRace |-> "no", manRace |-> "no", dfound |-> "none", mfound |-> "none",
   docWrite |-> "none", manWrite |-> "none"]

\* (the same with a slip: a POST answered with a backend error starts over)
RespondOrRetry(r, st, b) ==
  IF st = 502 /\ r.method = "POST" /\ r.nget + r.nput < 4
  THEN [r EXCEPT !.pc = "post_get", !.sha = NoSha, !.mexists = FALSE,
                 !.msha = NoSha, !.mlist = <<>>, !.now = 0]
  ELSE [r EXCEPT !.pc = "done", !.status = st, !.body = b,
                 !.sha = NoSha, !.mexists = FALSE, !.msha = NoSha, !.mlist = <<>>,
                 !.now = 0]

\* The slot after res.status(st).json(b): the locals are dead.
Respond(r, st, b) ==
  [r EXCEPT !.pc = "done", !.status = st, !.body = b,
            !.sha = NoSha, !.mexists = FALSE, !.msha = NoSha, !.mlist = <<>>,
            !.now = 0]

\* ----------------------------------------------------- the repository
\* The contents API's decision on PUT: a file that does not exist is created
\* by a PUT without sha; a file that exists is replaced by a PUT whose sha is
\* the file's blob sha, and (noShaOverwrites) by a PUT without sha.
\* (the same with a slip: that ignores the sha)
PutAcceptedBlind(file, sha) == TRUE
PutAccepted(file, sha) ==
  IF ~file.exists THEN ~sha.some
  ELSE IF sha.some THEN sha = Sha(file.text)
  ELSE noShaOverwrites

\* (the same with a slip: that ignores the sha)
DeleteAcceptedAny(file, sha) == file.exists

\* The contents API's decision on DELETE: the sha must be the file's.
DeleteAccepted(file, sha) == file.exists /\ sha.some /\ sha = Sha(file.text)

\* (the same with a slip: that takes 404 for an error)
ghGetFile404IsError(file, fault) ==
  IF fault \/ ~file.exists
  THEN [error |-> TRUE, exists |-> FALSE, sha |-> NoSha, contentB64 |-> <<>>]
  ELSE [error |-> FALSE, exists |-> TRUE, sha |-> Sha(file.text),
        contentB64 |-> StripNewlines(WrapLines(toBase64(file.text)))]

\* ghGetFile: 404 is { exists: false }; a non-ok answer is { error }.
ghGetFile(file, fault) ==
  IF fault THEN [error |-> TRUE, exists |-> FALSE, sha |-> NoSha, contentB64 |-> <<>>]
  ELSE IF ~file.exists
  THEN [error |-> FALSE, exists |-> FALSE, sha |-> NoSha, contentB64 |-> <<>>]
  ELSE [error |-> FALSE, exists |-> TRUE, sha |-> Sha(file.text),
        contentB64 |-> StripNewlines(WrapLines(toBase64(file.text)))]

\* ghPutFile: the answer and the file afterwards.  body.sha is sent only when
\* sha is truthy; the repository stores the decoded content.
ghPutFile(file, contentStr, sha, fault) ==
  IF ~fault /\ PutAccepted(file, sha)
  THEN [error |-> FALSE, file |-> File(fromBase64(toBase64(contentStr)))]
  ELSE [error |-> TRUE, file |-> file]

\* (the same with a slip: the file is removed although the answer is an error)
ghDeleteFileAlways(file, sha, fault) ==
  IF ~fault /\ DeleteAccepted(file, sha)
  THEN [error |-> FALSE, file |-> Absent]
  ELSE [error |-> TRUE, file |-> Absent]

\* ghDeleteFile: the answer and the file afterwards.
ghDeleteFile(file, sha, fault) ==
  IF ~fault /\ DeleteAccepted(file, sha)
  THEN [error |-> FALSE, file |-> Absent]
  ELSE [error |-> TRUE, file |-> file]

\* (the same with a slip: that reports a manifest that is not an array as a
\* missing file)
loadManifestCorruptAsMissing(file, fault) ==
  LET f == ghGetFile(file, fault) IN
  IF f.error THEN [error |-> TRUE, exists |-> FALSE, sha |-> NoSha, list |-> <<>>]
  ELSE IF ~f.exists \/ ~IsArrayText(fromBase64(f.contentB64))
  THEN [error |-> FALSE, exists |-> FALSE, sha |-> NoSha, list |-> <<>>]
  ELSE [error |-> FALSE, exists |-> TRUE, sha |-> f.sha,
        list |-> parseList(fromBase64(f.contentB64))]

\* (the same with a slip: that takes a manifest that is not an array for an
\* error)
loadManifestNoRecovery(file, fault) ==
  LET f == ghGetFile(file, fault) IN
  IF f.error \/ (f.exists /\ ~IsArrayText(fromBase64(f.contentB64)))
  THEN [error |-> TRUE, exists |-> FALSE, sha |-> NoSha, list |-> <<>>]
  ELSE IF ~f.exists THEN [error |-> FALSE, exists |-> FALSE, sha |-> NoSha, list |-> <<>>]
  ELSE [error |-> FALSE, exists |-> TRUE, sha |-> f.sha,
        list |-> parseList(fromBase64(f.contentB64))]

\* loadManifest: { error } | { exists: false, sha: null, list: [] }
\*             | { exists: true, sha, list }
loadManifest(file, fault) ==
  LET f == ghGetFile(file, fault) IN
  IF f.error THEN [error |-> TRUE, exists |-> FALSE, sha |-> NoSha, list |-> <<>>]
  ELSE IF ~f.exists THEN [error |-> FALSE, exists |-> FALSE, sha |-> NoSha, list |-> <<>>]
  ELSE [error |-> FALSE, exists |-> TRUE, sha |-> f.sha,
        list |-> parseList(fromBase64(f.contentB64))]

\* What a manifest load finds in the file.
Found(file, fault) ==
  CASE fault = "err" -> "error"
    [] fault = "throw" -> "thrown"
    [] OTHER -> IF ~file.exists THEN "absent"
                ELSE IF IsArrayText(file.text) THEN "array" ELSE "corrupt"

\* What a read of a document finds in the file.
FoundDoc(file, fault) ==
  CASE fault = "err" -> "error"
    [] fault = "throw" -> "thrown"
    [] OTHER -> IF ~file.exists THEN "absent"
                ELSE IF JSONparse(file.text) = JThrow THEN "unparsable" ELSE "present"

\* saveManifest
saveManifest(file, manifestSha, list, fault) ==
  ghPutFile(file, stringifyList(list), manifestSha, fault)

\* ------------------------------------------------------ handler pieces
\* state && state.__meta && state.__meta.name ? String(state.__meta.name) : null
NameOf(state) ==
  IF state.t = "obj" /\ state.m \in {"str", "num"} /\ state.v \notin {"", "0"}
  THEN JVal("str", "", state.v)
  ELSE JNull

\* list.findIndex(x => x && x.id === id): the first index, 0 for -1.
FindIndex(list, id) ==
  IF \E i \in 1..Len(list) : list[i].id = id
  THEN CHOOSE i \in 1..Len(list) :
         list[i].id = id /\ \A j \in 1..(i - 1) : list[j].id # id
  ELSE 0

\* Lines 170-173: replace the entry in place, or push it.
\* (the same with a slip: one always pushes, one never does, one moves the
\* entry to the end)
UpsertAlwaysPush(list, id, name, now) == Append(list, Entry(id, name, now))
UpsertMoveToEnd(list, id, name, now) ==
  Append(SelectSeq(list, LAMBDA x : x.id # id), Entry(id, name, now))
UpsertReplaceOnly(list, id, name, now) ==
  LET idx == FindIndex(list, id) IN
  IF idx > 0 THEN [list EXCEPT ![idx] = Entry(id, name, now)] ELSE list
Upsert(list, id, name, now) ==
  LET idx == FindIndex(list, id) IN
  IF idx > 0 THEN [list EXCEPT ![idx] = Entry(id, name, now)]
  ELSE Append(list, Entry(id, name, now))

\* (the same with a slip: one removes nothing, one removes every entry)
FilterOutNothing(list, id) == list
FilterOutAll(list, id) == <<>>

\* Line 195: (man.list || []).filter(x => x && x.id !== id)
FilterOut(list, id) == SelectSeq(list, LAMBDA x : x.id # id)

\* (the same with a slip: that reports every document as missing)
GetResponseAlwaysMissing(f) ==
  IF f.error THEN [status |-> 502, body |-> ErrorBody("GitHub GET failed")]
  ELSE [status |-> 200,
        body |-> Body("", FALSE, "absent", "false", JNull, <<>>, FALSE)]

\* The response to a GET of a document file (lines 140-143).
GetResponse(f) ==
  IF f.error THEN [status |-> 502, body |-> ErrorBody("GitHub GET failed")]
  ELSE IF ~f.exists
  THEN [status |-> 200,
        body |-> Body("", FALSE, "absent", "false", JNull, <<>>, FALSE)]
  ELSE LET state == JSONparse(fromBase64(f.contentB64)) IN
       IF state = JThrow THEN [status |-> 500, body |-> ErrorBody("Unhandled")]
       ELSE [status |-> 200,
             body |-> Body("", FALSE, "absent", "true", state, <<>>, FALSE)]

\* How a backend call can go now: "ok" the repository answers; "err" it
\* answers with a non-2xx, non-404 status; "throw" the fetch rejects before
\* the repository has acted and the handler's catch answers (lines 203-205).
Faults == IF nfault < MaxFaults THEN {"ok", "err", "throw"} ELSE {"ok"}
Count(fault) == IF fault # "ok" THEN nfault + 1 ELSE nfault

\* The slot after the catch of lines 203-205.
\* (the same with a slip: that answers 502)
UnhandledAsBackendError(r) == Respond(r, 502, ErrorBody("Unhandled"))
Unhandled(r) == Respond(r, 500, ErrorBody("Unhandled"))

\* What an accepted write of kind k ("put" or "other") to document id by slot q
\* means to the other invocations that have read the document and not yet
\* written it.
TouchDoc(pr, q, id, k) ==
  [p \in Procs |->
     IF p # q /\ pr[p].pc \in {"post_put", "del_del"} /\ pr[p].id = id
     THEN [pr[p] EXCEPT !.docRace =
             IF k = "put" /\ pr[p].docRace \in {"no", "put"} THEN "put" ELSE "other"]
     ELSE pr[p]]

\* The same for the manifest.
TouchManifest(pr, q) ==
  [p \in Procs |->
     IF p # q /\ pr[p].pc \in {"post_save", "del_save"}
     THEN [pr[p] EXCEPT !.manRace = "other"]
     ELSE pr[p]]

\* ------------------------------------------------------------------ Init
\* The repository before the first request: empty; one dashboard with its
\* manifest entry; or a manifest that is not a JSON array.
SalesDoc == JVal("obj", "str", "Sales")

InitRepos(sc) ==
  LET none == [k \in Keys(sc) \cup {ABC} |-> Absent] IN
  { [docs |-> none, manifest |-> Absent],
    [docs |-> [none EXCEPT ![ABC] = File(JSONstringify(SalesDoc))],
     manifest |-> File(stringifyList(<<Entry(ABC, NameOf(SalesDoc), 0)>>))] }
  \cup (IF sc # "corrupt" THEN {}
        ELSE { [docs |-> none, manifest |-> File(NotArrayText)],
               [docs |-> none, manifest |-> File(UnparsableText)] })

InitWith(sc) ==
  /\ scen = sc
  /\ \E r \in InitRepos(sc) :
       /\ docs = [k \in Keys(sc) |-> IF k \in DOMAIN r.docs THEN r.docs[k] ELSE Absent]
       /\ manifest = r.manifest
  /\ clock = 0
  /\ env \in (IF sc = "conc" THEN {"ok", "missing", "slash"} ELSE {"ok"})
  /\ noShaOverwrites \in BOOLEAN
  /\ proc = [p \in Procs |-> Idle]
  /\ nreq = 0
  /\ nfault = IF sc \in {"conc", "corrupt"} THEN 0 ELSE MaxFaults
  /\ hist = [lastPut |-> [k \in Keys(sc) |-> IF docs[k].exists THEN SalesDoc ELSE JUndef],
             lastOk |-> [k \in Keys(sc) |-> IF docs[k].exists THEN 0 ELSE -1],
             overlapped |-> FALSE]

Init == InitWith("conc")

\* ------------------------------------------------------------- actions
\* Lines 110-127 and the dispatch of lines 129-202 up to the first await.
\* Outside the id scenario the clients send no dash parameter with a request
\* that does not read it (a listing, OPTIONS, an unsupported verb).
Begin(p) ==
  /\ p \in Active(scen)
  /\ proc[p].pc \in {"idle", "done"}
  /\ nreq < Budget(scen)
  /\ nreq' = nreq + 1
  /\ \E method \in Methods, dash \in RawIds(scen) \cup {<<>>},
        list \in BOOLEAN, st \in States(scen) \cup {JUndef} :
       /\ (method # "GET") => ~list
       /\ (method # "POST") => st = JUndef
       /\ (scen # "ids" /\ (list \/ method \notin {"GET", "POST", "DELETE"}))
            => dash = <<>>
       /\ LET r == [Idle EXCEPT !.method = method, !.dash = dash, !.list = list,
                                !.state = IF st = JUndef THEN JNull ELSE st]
              id == safeDashId(dash)
              bad == Respond(r, 400, ErrorBody("Missing/invalid dash id"))
          IN proc' = [proc EXCEPT ![p] =
               IF method = "OPTIONS" THEN Respond(r, 204, NoBody)
               ELSE IF env = "missing" THEN Respond(r, 500, ErrorBody("Missing env vars"))
               ELSE IF env = "slash"
                 THEN Respond(r, 400, ErrorBody("GITHUB_REPO must be repo name only"))
               ELSE IF method = "GET" /\ list THEN [r EXCEPT !.pc = "list_load"]
               ELSE IF method \in {"GET", "POST", "DELETE"}
                 THEN IF id = NoId THEN bad
                      ELSE [r EXCEPT !.id = id,
                                     !.pc = CASE method = "GET" -> "get_doc"
                                              [] method = "POST" -> "post_get"
                                              [] OTHER -> "del_get"]
               ELSE Respond(r, 405, ErrorBody("Method not allowed"))]
  /\ hist' = [hist EXCEPT !.overlapped =
                @ \/ \E q \in Procs \ {p} : proc[q].pc \notin {"idle", "done"}]
  /\ UNCHANGED <<docs, manifest, clock, env, noShaOverwrites, scen, nfault>>

\* GET ?list=1 (lines 130-132)
ListLoad(p) ==
  /\ proc[p].pc = "list_load"
  /\ \E fault \in Faults :
       LET man == loadManifest(manifest, fault = "err")
           r == [proc[p] EXCEPT !.nget = @ + 1, !.mfound = Found(manifest, fault)] IN
       /\ nfault' = Count(fault)
       /\ proc' = [proc EXCEPT ![p] =
            IF fault = "throw" THEN Unhandled(r)
            ELSE IF man.error THEN Respond(r, 502, ErrorBody("Manifest GET failed"))
            ELSE Respond(r, 200, Body("", FALSE, "absent", "absent", JUndef, man.list, FALSE))]
  /\ UNCHANGED <<docs, manifest, clock, env, noShaOverwrites, scen, nreq, hist>>

\* GET ?dash=<id> (lines 139-143)
GetDoc(p) ==
  /\ proc[p].pc = "get_doc"
  /\ \E fault \in Faults :
       LET res == GetResponse(ghGetFile(docs[proc[p].id], fault = "err"))
           r == [proc[p] EXCEPT !.nget = @ + 1,
                                !.dfound = FoundDoc(docs[proc[p].id], fault)] IN
       /\ nfault' = Count(fault)
       /\ proc' = [proc EXCEPT ![p] =
            IF fault = "throw" THEN Unhandled(r)
            ELSE Respond(r, res.status, res.body)]
  /\ UNCHANGED <<docs, manifest, clock, env, noShaOverwrites, scen, nreq, hist>>

\* POST: the pre-read (lines 157-158)
PostGet(p) ==
  /\ proc[p].pc = "post_get"
  /\ \E fault \in Faults :
       LET existing == ghGetFile(docs[proc[p].id], fault = "err")
           r == [proc[p] EXCEPT !.nget = @ + 1,
                                !.dfound = FoundDoc(docs[proc[p].id], fault)] IN
       /\ nfault' = Count(fault)
       /\ proc' = [proc EXCEPT ![p] =
            IF fault = "throw" THEN Unhandled(r)
            ELSE IF existing.error
            THEN Respond(r, 502, ErrorBody("GitHub GET pre-update failed"))
            ELSE [r EXCEPT !.pc = "post_put",
                           !.sha = IF existing.exists THEN existing.sha ELSE NoSha]]
  /\ UNCHANGED <<docs, manifest, clock, env, noShaOverwrites, scen, nreq, hist>>

\* POST: the document write (lines 160-162)
PostPut(p) ==
  /\ proc[p].pc = "post_put"
  /\ \E fault \in Faults :
       LET id == proc[p].id
           saved == ghPutFile(docs[id], JSONstringify(proc[p].state), proc[p].sha,
                              fault = "err")
           r == [proc[p] EXCEPT !.nput = @ + 1] IN
       /\ nfault' = Count(fault)
       /\ docs' = IF fault = "throw" THEN docs ELSE [docs EXCEPT ![id] = saved.file]
       /\ IF fault = "throw"
          THEN proc' = [proc EXCEPT ![p] = Unhandled([r EXCEPT !.docWrite = "thrown"])]
          ELSE IF saved.error
          THEN proc' = [proc EXCEPT ![p] =
                 Respond([r EXCEPT !.docWrite = "rej"], 502, ErrorBody("GitHub PUT failed"))]
          ELSE proc' = [TouchDoc(proc, p, id, "put") EXCEPT ![p] =
                 [r EXCEPT !.pc = "post_man", !.docWrite = "ok", !.sha = NoSha]]
       /\ hist' = IF fault = "throw" \/ saved.error THEN hist
                  ELSE [hist EXCEPT !.lastPut[id] = proc[p].state]
  /\ UNCHANGED <<manifest, clock, env, noShaOverwrites, scen, nreq>>

\* POST: the manifest load and the upsert (lines 164-173)
PostMan(p) ==
  /\ proc[p].pc = "post_man"
  /\ \E fault \in Faults, now \in clock..Min(clock + 1, MaxClock) :
       LET man == loadManifest(manifest, fault = "err")
           r == [proc[p] EXCEPT !.nget = @ + 1, !.mfound = Found(manifest, fault)] IN
       /\ nfault' = Count(fault)
       /\ clock' = IF fault # "ok" THEN clock ELSE now
       /\ (fault # "ok" => now = clock)
       /\ proc' = [proc EXCEPT ![p] =
            IF fault = "throw" THEN Unhandled(r)
            ELSE IF man.error THEN Respond(r, 502, ErrorBody("Manifest GET failed"))
            ELSE [r EXCEPT !.pc = "post_save",
                           !.mexists = man.exists,
                           !.msha = IF man.exists THEN man.sha ELSE NoSha,
                           !.now = now,
                           !.mlist = Upsert(man.list, r.id, NameOf(r.state), now)]]
  /\ UNCHANGED <<docs, manifest, env, noShaOverwrites, scen, nreq, hist>>

\* POST: the manifest save and the response (lines 175-178)
PostSave(p) ==
  /\ proc[p].pc = "post_save"
  /\ \E fault \in Faults :
       LET manSaved == saveManifest(manifest, proc[p].msha, proc[p].mlist, fault = "err")
           r == [proc[p] EXCEPT !.nput = @ + 1] IN
       /\ nfault' = Count(fault)
       /\ manifest' = IF fault = "throw" THEN manifest ELSE manSaved.file
       /\ IF fault = "throw"
          THEN proc' = [proc EXCEPT ![p] = Unhandled([r EXCEPT !.manWrite = "thrown"])]
          ELSE IF manSaved.error
          THEN proc' = [proc EXCEPT ![p] =
                 Respond([r EXCEPT !.manWrite = "rej"], 502, ErrorBody("Manifest PUT failed"))]
          ELSE proc' = [TouchManifest(proc, p) EXCEPT ![p] =
                 Respond([r EXCEPT !.manWrite = "ok"], 200,
                         Body("", TRUE, "absent", "absent", JUndef, <<>>, TRUE))]
       /\ hist' = IF fault = "throw" \/ manSaved.error THEN hist
                  ELSE [hist EXCEPT !.lastOk[r.id] = r.now]
  /\ UNCHANGED <<docs, clock, env, noShaOverwrites, scen, nreq>>

\* The body of DELETE's response after the document delete (line 199):
\* { ok: true, commitUrl }.
DeletedBody == Body("", TRUE, "absent", "absent", JUndef, <<>>, TRUE)

\* DELETE: the pre-read (lines 186-188)
DelGet(p) ==
  /\ proc[p].pc = "del_get"
  /\ \E fault \in Faults :
       LET file == ghGetFile(docs[proc[p].id], fault = "err")
           r == [proc[p] EXCEPT !.nget = @ + 1,
                                !.dfound = FoundDoc(docs[proc[p].id], fault)] IN
       /\ nfault' = Count(fault)
       /\ proc' = [proc EXCEPT ![p] =
            IF fault = "throw" THEN Unhandled(r)
            ELSE IF file.error
            THEN Respond(r, 502, ErrorBody("GitHub GET pre-delete failed"))
            ELSE IF ~file.exists
            THEN Respond(r, 200, Body("", TRUE, "false", "absent", JUndef, <<>>, FALSE))
            ELSE [r EXCEPT !.pc = "del_del", !.sha = file.sha]]
  /\ UNCHANGED <<docs, manifest, clock, env, noShaOverwrites, scen, nreq, hist>>

\* DELETE: the document delete (lines 190-191)
DelDel(p) ==
  /\ proc[p].pc = "del_del"
  /\ \E fault \in Faults :
       LET id == proc[p].id
           del == ghDeleteFile(docs[id], proc[p].sha, fault = "err")
           r == [proc[p] EXCEPT !.ndel = @ + 1] IN
       /\ nfault' = Count(fault)
       /\ docs' = IF fault = "throw" THEN docs ELSE [docs EXCEPT ![id] = del.file]
       /\ IF fault = "throw"
          THEN proc' = [proc EXCEPT ![p] = Unhandled([r EXCEPT !.docWrite = "thrown"])]
          ELSE IF del.error
          THEN proc' = [proc EXCEPT ![p] =
                 Respond([r EXCEPT !.docWrite = "rej"], 502, ErrorBody("GitHub DELETE failed"))]
          ELSE proc' = [TouchDoc(proc, p, id, "other") EXCEPT ![p] =
                 [r EXCEPT !.pc = "del_man", !.docWrite = "ok", !.sha = NoSha]]
       /\ hist' = IF fault = "throw" \/ del.error THEN hist
                  ELSE [hist EXCEPT !.lastPut[id] = JUndef, !.lastOk[id] = -1]
  /\ UNCHANGED <<manifest, clock, env, noShaOverwrites, scen, nreq>>

\* DELETE: the manifest load and the filter (lines 193-195); a load that
\* returns an error skips the save and the response is the success response;
\* no try surrounds the step, so a rejected fetch reaches the catch.
DelMan(p) ==
  /\ proc[p].pc = "del_man"
  /\ \E fault \in Faults :
       LET man == loadManifest(manifest, fault = "err")
           r == [proc[p] EXCEPT !.nget = @ + 1, !.mfound = Found(manifest, fault)] IN
       /\ nfault' = Count(fault)
       /\ proc' = [proc EXCEPT ![p] =
            IF fault = "throw" THEN Unhandled(r)
            ELSE IF man.error THEN Respond(r, 200, DeletedBody)
            ELSE [r EXCEPT !.pc = "del_save",
                           !.mexists = man.exists,
                           !.msha = IF man.exists THEN man.sha ELSE NoSha,
                           !.mlist = FilterOut(man.list, r.id)]]
  /\ UNCHANGED <<docs, manifest, clock, env, noShaOverwrites, scen, nreq, hist>>

\* DELETE: the manifest save, its result ignored, and the response
\* (lines 196-199)
DelSave(p) ==
  /\ proc[p].pc = "del_save"
  /\ \E fault \in Faults :
       LET manSaved == saveManifest(manifest, proc[p].msha, proc[p].mlist, fault = "err")
           r == [proc[p] EXCEPT !.nput = @ + 1] IN
       /\ nfault' = Count(fault)
       /\ manifest' = IF fault = "throw" THEN manifest ELSE manSaved.file
       /\ IF fault = "throw"
          THEN proc' = [proc EXCEPT ![p] = Unhandled([r EXCEPT !.manWrite = "thrown"])]
          ELSE IF manSaved.error
          THEN proc' = [proc EXCEPT ![p] =
                 Respond([r EXCEPT !.manWrite = "rej"], 200, DeletedBody)]
          ELSE proc' = [TouchManifest(proc, p) EXCEPT ![p] =
                 Respond([r EXCEPT !.manWrite = "ok"], 200, DeletedBody)]
  /\ UNCHANGED <<docs, clock, env, noShaOverwrites, scen, nreq, hist>>

Next ==
  \E p \in Procs :
    \/ Begin(p)
    \/ ListLoad(p)
    \/ GetDoc(p)
    \/ PostGet(p)
    \/ PostPut(p)
    \/ PostMan(p)
    \/ PostSave(p)
    \/ DelGet(p)
    \/ DelDel(p)
    \/ DelMan(p)
    \/ DelSave(p)

\* Two request slots, overlapping requests, backend faults.
Spec == Init /\ [][Next]_vars

\* One request at a time, three dashboard ids, no backend fault.
InitSeq == InitWith("seq")
SpecSeq == InitSeq /\ [][Next]_vars

\* A single request, over every raw id up to MaxIdLen and ids of the
\* longest lengths.
InitIds == InitWith("ids")
SpecIds == InitIds /\ [][Next]_vars

\* Two request slots, one dashboard id, every JSON value.
InitJson == InitWith("json")
SpecJson == InitJson /\ [][Next]_vars

\* Two request slots, backend faults, and repositories whose manifest is not
\* a JSON array.
InitCorrupt == InitWith("corrupt")
SpecCorrupt == InitCorrupt /\ [][Next]_vars

\* ----------------------------------------------------------- vocabulary
\* What a GET ?dash=id would answer in the current state, no fault.
GetNow(id) == GetResponse(ghGetFile(docs[id], FALSE))

\* What a GET ?list=1 would answer in the current state, no fault.
ListNow == loadManifest(manifest, FALSE).list

\* The number of entries of a list that carry id.
EntriesOf(list, id) == Cardinality({i \in 1..Len(list) : list[i].id = id})

Calls(r) == r.nget + r.nput + r.ndel

Quiescent == \A p \in Procs : proc[p].pc \in {"idle", "done"}

\* ------------------------------------------------------------------- C1
\* C1 as stated: a POST whose document was written by another POST of the
\* same id between its pre-read and its own write has that write rejected.
\* Stated for the repository that rejects a PUT without sha to an existing
\* file, where a race of two creations is detected too.
C1_Original ==
  ~noShaOverwrites =>
    \A p \in Procs :
      (/\ proc[p].method = "POST" /\ proc[p].docRace = "put"
       /\ proc[p].docWrite \in {"ok", "rej"})
        => (proc[p].docWrite = "rej" /\ proc[p].status = 502)

\* C1, amended: when the second POST read an existing document and the
\* document's hash at the time its write reaches the repository differs from
\* the hash it read (the first POST's write changed the content), the write
\* is rejected, the
\* second POST answers 502 "GitHub PUT failed", the document is unchanged, and
\* a GET of the id returns the state the first POST wrote.
C1_StaleHashRejected ==
  [][\A p \in Procs :
       (/\ proc[p].pc = "post_put" /\ proc'[p].pc # "post_put"
        /\ proc[p].docRace = "put"
        /\ proc[p].sha.some
        /\ Sha(docs[proc[p].id].text) # proc[p].sha
        /\ proc'[p].docWrite # "thrown")
       => (/\ proc'[p].pc = "done" /\ proc'[p].status = 502
           /\ proc'[p].body.error = "GitHub PUT failed"
           /\ docs' = docs
           /\ GetResponse(ghGetFile(docs'[proc[p].id], FALSE)).status = 200
           /\ GetResponse(ghGetFile(docs'[proc[p].id], FALSE)).body.exists = "true"
           /\ GetResponse(ghGetFile(docs'[proc[p].id], FALSE)).body.state
                = hist.lastPut[proc[p].id])]_vars

\* C1's case is reached: with no backend fault, a POST is answered 502 for
\* its document write after another POST of the same id wrote the document
\* it had read, and a GET returns the other POST's state.
C1_Witness ==
  \E p \in Procs, q \in Procs :
    /\ p # q /\ nfault = 0
    /\ proc[p].method = "POST" /\ proc[q].method = "POST" /\ proc[p].id = proc[q].id
    /\ proc[p].pc = "done" /\ proc[p].status = 502 /\ proc[p].docRace = "put"
    /\ proc[p].body.error = "GitHub PUT failed"
    /\ proc[q].docWrite = "ok" /\ proc[p].state # proc[q].state
    /\ GetNow(proc[p].id).body.state = proc[q].state

\* ------------------------------------------------------------------- C2
\* C2 as stated: a write or delete of a file that another request changed
\* between this request's read of the file and the write is rejected.
\* Stated for the repository that rejects a PUT without sha to an existing
\* file, where a race of two creations is detected too.
C2_Original ==
  ~noShaOverwrites =>
    \A p \in Procs :
      /\ (proc[p].docRace # "no" /\ proc[p].docWrite \in {"ok", "rej"})
           => proc[p].docWrite = "rej"
      /\ (proc[p].manRace # "no" /\ proc[p].manWrite \in {"ok", "rej"})
           => proc[p].manWrite = "rej"

\* C2, amended: a write or delete that carries the hash the request read
\* (the file existed at the read) leaves the file as it is, and is rejected
\* when it reaches the repository, when the file's hash at the time of the
\* write differs from that hash or the file is gone.
C2_HashMismatchRejected ==
  [][\A p \in Procs :
       /\ (/\ proc[p].pc \in {"post_put", "del_del"} /\ proc'[p].pc # proc[p].pc
           /\ proc[p].sha.some
           /\ (~docs[proc[p].id].exists \/ Sha(docs[proc[p].id].text) # proc[p].sha))
          => (/\ docs' = docs
              /\ proc'[p].docWrite # "thrown"
                   => (proc'[p].docWrite = "rej" /\ proc'[p].status = 502))
       /\ (/\ proc[p].pc \in {"post_save", "del_save"} /\ proc'[p].pc # proc[p].pc
           /\ proc[p].msha.some
           /\ (~manifest.exists \/ Sha(manifest.text) # proc[p].msha))
          => (/\ manifest' = manifest
              /\ proc'[p].manWrite # "thrown" => proc'[p].manWrite = "rej")]_vars

\* C2's case is reached: with no backend fault, a manifest save and a
\* document delete are each rejected after another request changed the file.
C2_Witness ==
  /\ nfault = 0
  /\ \E p \in Procs :
       \/ proc[p].manRace # "no" /\ proc[p].manWrite = "rej" /\ proc[p].method = "POST"
       \/ proc[p].docRace # "no" /\ proc[p].docWrite = "rej" /\ proc[p].method = "DELETE"

\* ------------------------------------------------------------------- C3
\* C3: while the last accepted document write of an id is that of a POST
\* with state X (no later write or delete of the id), a GET of the id
\* answers 200 with exists true and state X.
C3_RoundTrip ==
  \A k \in DOMAIN docs :
    hist.lastPut[k] # JUndef =>
      GetNow(k) = [status |-> 200,
                   body |-> Body("", FALSE, "absent", "true", hist.lastPut[k], <<>>, FALSE)]

\* C3's case is reached: a POST of an object state answered 200 and a GET
\* of the same id answered with that state.
C3_Witness ==
  \E p \in Procs, q \in Procs :
    /\ proc[p].pc = "done" /\ proc[p].method = "POST" /\ proc[p].status = 200
    /\ proc[p].state = JVal("obj", "num", "7")
    /\ proc[q].pc = "done" /\ proc[q].method = "GET" /\ proc[q].status = 200
    /\ proc[q].id = proc[p].id
    /\ proc[q].body.exists = "true" /\ proc[q].body.state = proc[p].state

\* ------------------------------------------------------------------- C4
\* The manifest and the documents agree: an id's document exists exactly
\* when the manifest lists the id.
Agree == \A k \in DOMAIN docs : docs[k].exists <=> EntriesOf(ListNow, k) > 0

\* C4 as stated: once every request has run to completion, with no backend
\* fault, the manifest and the documents agree.  Stated for the repository
\* that rejects a PUT without sha to an existing file.
C4_Original == (~noShaOverwrites /\ Quiescent /\ nfault = 0) => Agree

\* C4, amended: once every request has run to completion, with no backend
\* fault and no two requests having overlapped, the manifest and the
\* documents agree (they agree before the first request).
C4_SequentialAgreement == (Quiescent /\ nfault = 0 /\ ~hist.overlapped) => Agree

\* C4's case is reached: a POST and a DELETE have run one after the other.
C4_Witness ==
  /\ Quiescent /\ nfault = 0 /\ ~hist.overlapped
  /\ \E p \in Procs, q \in Procs :
       /\ proc[p].method = "POST" /\ proc[p].status = 200
       /\ proc[q].method = "DELETE" /\ proc[q].docWrite = "ok"

\* ------------------------------------------------------------------- C5
\* C5: the persisted manifest holds at most one entry per dashboard id.
C5_ManifestUnique == \A k \in DOMAIN docs : EntriesOf(ListNow, k) <= 1

\* C5's case is reached: two POSTs of one id have answered 200 and the
\* manifest holds one entry for it.
C5_Witness ==
  \E p \in Procs, q \in Procs :
    /\ p # q /\ proc[p].id = proc[q].id
    /\ proc[p].method = "POST" /\ proc[p].status = 200
    /\ proc[q].method = "POST" /\ proc[q].status = 200
    /\ EntriesOf(ListNow, proc[p].id) = 1

\* ------------------------------------------------------------------- C6
\* The entry of id in a list that holds one.
EntryOf(list, id) == list[CHOOSE i \in 1..Len(list) : list[i].id = id]

\* C6: with requests running one at a time, after a POST of an id has
\* answered 200 (and the id was not deleted since) the listing holds exactly
\* one entry for the id, with the updatedAt of that POST, and the updatedAt
\* of an id does not decrease from one such POST to the next.
C6_ListingComplete ==
  [][(manifest' # manifest \/ hist' # hist) =>
       LET list == loadManifest(manifest', FALSE).list IN
       \A k \in DOMAIN docs :
         hist'.lastOk[k] >= 0 =>
           /\ EntriesOf(list, k) = 1
           /\ EntryOf(list, k).updatedAt = hist'.lastOk[k]
           /\ hist.lastOk[k] >= 0 => hist'.lastOk[k] >= hist.lastOk[k]
    ]_vars

\* C6's case is reached: POSTs of three ids have answered 200, one of them
\* a repeated POST at a later clock value, and the listing holds three
\* entries.
C6_Witness ==
  /\ \A k \in {ABC, XYZ, QRS} : hist.lastOk[k] >= 0
  /\ Len(ListNow) = 3
  /\ nreq = 4
  /\ \E k \in {ABC, XYZ, QRS} : hist.lastOk[k] = 1 /\ EntryOf(ListNow, k).updatedAt = 1

\* ------------------------------------------------------------------- C7
\* The step in which DELETE sends its response after deleting the document.
DeleteResponds(p) ==
  /\ proc[p].method = "DELETE" /\ proc[p].pc \in {"del_man", "del_save"}
  /\ proc'[p].pc = "done"

\* C7 as stated: when a DELETE that deleted the document answers 200, and no
\* POST has written the document since, the listing has no entry for the id
\* and a GET answers exists false.
C7_Original ==
  [][\A p \in Procs :
       (/\ DeleteResponds(p) /\ proc'[p].status = 200
        /\ hist'.lastPut[proc[p].id] = JUndef)
       => (/\ EntriesOf(loadManifest(manifest', FALSE).list, proc[p].id) = 0
           /\ GetResponse(ghGetFile(docs'[proc[p].id], FALSE)).body.exists = "false")]_vars

\* C7, amended: when a DELETE that deleted the document answers 200, and no
\* POST has written the document since, a GET answers exists false; the
\* listing has no entry for the id when the DELETE's manifest save was
\* accepted.
C7_DeleteRemoves ==
  [][\A p \in Procs :
       (/\ DeleteResponds(p) /\ proc'[p].status = 200
        /\ hist'.lastPut[proc[p].id] = JUndef)
       => (/\ GetResponse(ghGetFile(docs'[proc[p].id], FALSE)).status = 200
           /\ GetResponse(ghGetFile(docs'[proc[p].id], FALSE)).body.exists = "false"
           /\ proc'[p].manWrite = "ok"
                => EntriesOf(loadManifest(manifest', FALSE).list, proc[p].id) = 0)]_vars

\* C7's case is reached: a DELETE of a listed dashboard has answered 200,
\* its manifest save accepted, and the dashboard is gone from both.
C7_Witness ==
  \E p \in Procs :
    /\ proc[p].pc = "done" /\ proc[p].method = "DELETE" /\ proc[p].status = 200
    /\ proc[p].docWrite = "ok" /\ proc[p].manWrite = "ok"
    /\ ~docs[proc[p].id].exists /\ EntriesOf(ListNow, proc[p].id) = 0
    /\ manifest.exists /\ proc[p].nput = 1 /\ proc[p].ndel = 1

\* ------------------------------------------------------------------- C8
\* C8 as stated: every 200 response to DELETE carries a boolean deleted
\* field, true when the document was deleted and false when there was none.
C8_DeleteResponseShape ==
  \A p \in Procs :
    (nfault = 0 /\ proc[p].pc = "done" /\ proc[p].method = "DELETE" /\ proc[p].status = 200)
      => /\ proc[p].body.deleted \in {"true", "false"}
         /\ proc[p].docWrite = "ok" => proc[p].body.deleted = "true"
         /\ proc[p].docWrite = "none" => proc[p].body.deleted = "false"

\* ------------------------------------------------------------------- C9
\* C9: a DELETE whose pre-read is answered and finds no document answers 200
\* with ok true and deleted false, has made that one read and no write or
\* delete call, and leaves the documents and the manifest as they were.
C9_IdempotentDelete ==
  [][\A p \in Procs :
       (/\ proc[p].pc = "del_get" /\ proc'[p].pc # "del_get"
        /\ ~docs[proc[p].id].exists /\ nfault' = nfault)
       => (/\ proc'[p].pc = "done" /\ proc'[p].status = 200
           /\ proc'[p].body.ok /\ proc'[p].body.deleted = "false"
           /\ proc'[p].body.error = ""
           /\ proc'[p].nget = 1 /\ proc'[p].nput = 0 /\ proc'[p].ndel = 0
           /\ docs' = docs /\ manifest' = manifest)]_vars

\* C9's case is reached: a DELETE of an id with no document has answered.
C9_Witness ==
  \E p \in Procs :
    /\ proc[p].pc = "done" /\ proc[p].method = "DELETE" /\ proc[p].status = 200
    /\ proc[p].body.deleted = "false" /\ Calls(proc[p]) = 1
    /\ ~docs[proc[p].id].exists

\* ------------------------------------------------------------------ C10
\* An id that is missing, shorter than 3 or longer than 80 characters, or
\* holds a character outside letters, digits, hyphen and underscore.
InvalidId(s) ==
  \/ s = <<>>
  \/ Len(s) < 3
  \/ Len(s) > 80
  \/ \E i \in 1..Len(s) : s[i] \notin AllowedChars

\* A GET of a dashboard, a POST or a DELETE on a configured deployment.
IdRequest(r) ==
  /\ r.pc # "idle" /\ env = "ok"
  /\ r.method \in {"GET", "POST", "DELETE"} /\ ~r.list

\* C10 as stated: a request whose raw id is invalid is answered 400 and
\* makes no backend call.
C10_Original ==
  \A p \in Procs :
    (IdRequest(proc[p]) /\ InvalidId(proc[p].dash))
      => (proc[p].pc = "done" /\ proc[p].status = 400 /\ Calls(proc[p]) = 0)

\* C10, amended: a request whose id, with the surrounding blanks removed,
\* is invalid is answered 400 "Missing/invalid dash id" and makes no backend
\* call.
C10_TrimmedIdValidation ==
  \A p \in Procs :
    (IdRequest(proc[p]) /\ InvalidId(Trim(proc[p].dash)))
      => (/\ proc[p].pc = "done" /\ proc[p].status = 400
          /\ proc[p].body.error = "Missing/invalid dash id"
          /\ Calls(proc[p]) = 0)

\* C10's case is reached: a POST whose id is two letters between blanks is
\* answered 400 without a backend call, like one whose id has 81 letters.
C10_Witness ==
  \E p \in Procs :
    /\ proc[p].pc = "done" /\ proc[p].method = "POST"
    /\ proc[p].dash \in {<<Blank, "a", "a", Blank>>, Rep("a", MaxDashIdLen + 1)}
    /\ proc[p].status = 400 /\ Calls(proc[p]) = 0

\* ------------------------------------------------------------------ C11
\* The step in which slot p's request gets its response from a backend call.
Answers(p) == proc[p].pc \notin {"idle", "done"} /\ proc'[p].pc = "done"

\* C11: a listing that loads a manifest file that exists and is not a JSON
\* array answers 200 with an empty list; a POST that runs with no backend
\* fault and no overlapping request answers 200, and when the manifest it
\* loaded was not a JSON array, the manifest file afterwards is a JSON array
\* with one entry for the POST's id.
C11_CorruptRecovery ==
  [][\A p \in Procs :
       /\ (/\ proc[p].pc = "list_load" /\ Answers(p) /\ nfault' = nfault
           /\ manifest.exists /\ ~IsArrayText(manifest.text))
          => (/\ proc'[p].status = 200 /\ proc'[p].body.error = ""
              /\ proc'[p].body.dashboards = <<>>
              /\ manifest' = manifest)
       /\ (/\ proc[p].method = "POST" /\ Answers(p)
           /\ nfault' = 0 /\ ~hist'.overlapped)
          => (/\ proc'[p].status = 200 /\ proc'[p].body.ok
              /\ proc[p].mfound = "corrupt"
                   => (/\ manifest'.exists /\ IsArrayText(manifest'.text)
                       /\ EntriesOf(parseList(manifest'.text), proc[p].id) = 1
                       /\ parseList(manifest'.text)
                            = <<Entry(proc[p].id, NameOf(proc[p].state), proc[p].now)>>))
    ]_vars

\* C11's case is reached: one request listed a manifest that was not a JSON
\* array and was answered 200 with an empty list, then a POST loaded that
\* manifest and answered 200, and the manifest now is a JSON array with the
\* POST's entry.
C11_Witness ==
  \E p \in Procs, q \in Procs :
    /\ nfault = 0 /\ ~hist.overlapped
    /\ proc[p].pc = "done" /\ proc[p].method = "GET" /\ proc[p].list
    /\ proc[p].mfound = "corrupt" /\ proc[p].status = 200
    /\ proc[p].body.dashboards = <<>>
    /\ proc[q].pc = "done" /\ proc[q].method = "POST" /\ proc[q].status = 200
    /\ proc[q].mfound = "corrupt"
    /\ IsArrayText(manifest.text) /\ EntriesOf(ListNow, proc[q].id) = 1

\* ------------------------------------------------------------------ C12
\* An unexpected fault met by the request in slot r: a fetch rejected, or
\* the document a GET read did not parse.
Unexpected(r) ==
  \/ "thrown" \in {r.dfound, r.mfound, r.docWrite, r.manWrite}
  \/ r.method = "GET" /\ r.dfound = "unparsable"

\* A backend call of the request in slot r was answered with an error that
\* the handler surfaces: every call of a listing, a GET and a POST, and the
\* document read and document delete of a DELETE.
SurfacedError(r) ==
  \/ r.dfound = "error"
  \/ r.docWrite = "rej"
  \/ r.method # "DELETE" /\ (r.mfound = "error" \/ r.manWrite = "rej")

\* The code of the outcome of the request in slot r once configuration is in
\* order: by verb, then id, then the backend calls.
OutcomeCode(r) ==
  IF r.method = "GET" /\ r.list
    THEN (IF Unexpected(r) THEN 500 ELSE IF SurfacedError(r) THEN 502 ELSE 200)
  ELSE IF r.method \notin {"GET", "POST", "DELETE"} THEN 405
  ELSE IF InvalidId(Trim(r.dash)) THEN 400
  ELSE IF Unexpected(r) THEN 500
  ELSE IF SurfacedError(r) THEN 502
  ELSE 200

\* C12 as stated: a finished request has the code of its outcome class, 204
\* for OPTIONS, 500 for missing configuration or an unexpected fault, 400
\* only for an invalid or missing id, 405 for an unsupported verb, 502 for a
\* surfaced backend error, 200 otherwise.
C12_Original ==
  \A p \in Procs :
    proc[p].pc = "done" =>
      proc[p].status =
        IF proc[p].method = "OPTIONS" THEN 204
        ELSE IF env = "missing" THEN 500
        ELSE OutcomeCode(proc[p])

\* C12, amended: the same, with 400 also for every request other than
\* OPTIONS when the configured repository name holds a "/".
C12_StatusMapping ==
  \A p \in Procs :
    proc[p].pc = "done" =>
      proc[p].status =
        IF proc[p].method = "OPTIONS" THEN 204
        ELSE IF env = "missing" THEN 500
        ELSE IF env = "slash" THEN 400
        ELSE OutcomeCode(proc[p])

\* C12's case is reached: a DELETE whose manifest load was answered with an
\* error has answered 200, and a GET of the deleted document has answered 200.
C12_Witness ==
  \E p \in Procs, q \in Procs :
    /\ env = "ok"
    /\ proc[p].pc = "done" /\ proc[p].method = "DELETE" /\ proc[p].mfound = "error"
    /\ proc[p].status = 200
    /\ proc[q].pc = "done" /\ proc[q].method = "GET" /\ proc[q].id = proc[p].id
    /\ proc[q].dfound = "absent" /\ proc[q].status = 200

\* ------------------------------------------------------------------ C13
\* The manifest step of the POST in slot p fails in this step: its load or
\* its save is answered with an error, or its fetch rejects.
PostManifestFails(p) ==
  /\ proc[p].pc \in {"post_man", "post_save"} /\ Answers(p)
  /\ \/ proc'[p].mfound \in {"error", "thrown"}
     \/ proc'[p].manWrite \in {"rej", "thrown"}

\* A POST touches the manifest only after its document write was accepted:
\* a step of its pre-read or document write leaves the manifest as it is,
\* and unless the write is accepted the request ends there without a
\* manifest call.
ManifestAfterDocument(p) ==
  /\ proc[p].pc \in {"post_man", "post_save"} => proc[p].docWrite = "ok"
  /\ (proc[p].pc \in {"post_get", "post_put"} /\ proc'[p] # proc[p])
       => (/\ manifest' = manifest
           /\ proc'[p].mfound = "none" /\ proc'[p].manWrite = "none"
           /\ proc'[p].docWrite # "ok"
                => (proc'[p].pc \in {"post_put", "done"}
                    /\ (proc'[p].pc = "done" => proc'[p].status \in {500, 502})))

\* The document of the POST in slot p stays as it is in this step, and when
\* the last accepted write of the id is one of p's state, a GET returns it.
StaysCommitted(p) ==
  /\ docs' = docs
  /\ hist.lastPut[proc[p].id] = proc[p].state
       => GetResponse(ghGetFile(docs'[proc[p].id], FALSE))
            = [status |-> 200,
               body |-> Body("", FALSE, "absent", "true", proc[p].state, <<>>, FALSE)]

\* C13 as stated: a POST touches the manifest only after its document write
\* was accepted, and when its manifest load or save fails it answers 502
\* while the document it wrote stays committed and is returned by a GET.
C13_Original ==
  [][\A p \in Procs :
       /\ ManifestAfterDocument(p)
       /\ PostManifestFails(p) => (proc'[p].status = 502 /\ StaysCommitted(p))]_vars

\* C13, amended: the same, where the answer is 502 when the manifest load
\* or save is answered with an error and 500 when its fetch rejects.
C13_TwoPhaseNoRollback ==
  [][\A p \in Procs :
       /\ ManifestAfterDocument(p)
       /\ PostManifestFails(p)
            => (/\ proc'[p].status
                     = (IF "thrown" \in {proc'[p].mfound, proc'[p].manWrite}
                        THEN 500 ELSE 502)
                /\ proc'[p].body.error # "" /\ ~proc'[p].body.ok
                /\ StaysCommitted(p))]_vars

\* C13's case is reached: with no backend fault, a POST that created the
\* document was answered 502 for its manifest save, the manifest has no entry
\* for the id and a GET returns the state the POST wrote.
C13_Witness ==
  \E p \in Procs :
    /\ nfault = 0
    /\ proc[p].pc = "done" /\ proc[p].method = "POST" /\ proc[p].status = 502
    /\ proc[p].dfound = "absent" /\ proc[p].docWrite = "ok" /\ proc[p].manWrite = "rej"
    /\ EntriesOf(ListNow, proc[p].id) = 0
    /\ GetNow(proc[p].id).body.exists = "true"
    /\ GetNow(proc[p].id).body.state = proc[p].state

\* ------------------------------------------------------------------ C14
\* C14 as stated: a DELETE whose document delete was accepted answers 200
\* whether its manifest load and save succeed or fail, and its manifest step
\* leaves the documents as they are.
C14_DeleteAbsorbsManifestFailure ==
  [][\A p \in Procs :
       /\ (proc[p].method = "DELETE" /\ proc[p].pc \in {"del_man", "del_save"}
           /\ proc'[p] # proc[p])
          => (proc[p].docWrite = "ok" /\ docs' = docs)
       /\ DeleteResponds(p)
          => (/\ proc'[p].status = 200 /\ proc'[p].body.ok
              /\ proc'[p].body.error = "")]_vars

\* ------------------------------------------------------------------ C15
\* 1 when a call of the kind recorded in x was issued, else 0.
Issued(x) == IF x = "none" THEN 0 ELSE 1

\* C15: a request has issued each of its backend calls at most once (its
\* reads are the one document read and the one manifest load it has made, its
\* writes the one document write and the one manifest save, its deletes the
\* one document delete); a finished GET or listing that reached the
\* repository made exactly one read; and a request that met a surfaced
\* backend error, a hash conflict included, is finished with 502.
C15_NoRetries ==
  \A p \in Procs :
    LET r == proc[p] IN
    /\ r.nget = Issued(r.dfound) + Issued(r.mfound)
    /\ r.nput = (IF r.method = "POST" THEN Issued(r.docWrite) ELSE 0) + Issued(r.manWrite)
    /\ r.ndel = (IF r.method = "DELETE" THEN Issued(r.docWrite) ELSE 0)
    /\ r.method = "POST" => (r.nget <= 2 /\ r.nput <= 2 /\ r.ndel = 0)
    /\ r.method = "DELETE" => (r.nget <= 2 /\ r.nput <= 1 /\ r.ndel <= 1)
    /\ r.method = "GET" => (r.nget <= 1 /\ r.nput = 0 /\ r.ndel = 0)
    /\ (/\ r.pc = "done" /\ r.method = "GET" /\ env = "ok"
        /\ (r.list \/ ~InvalidId(Trim(r.dash))))
         => r.nget = 1
    /\ SurfacedError(r) => (r.pc = "done" /\ r.status = 502)

\* C15's case is reached: with no backend fault, a POST lost the race for
\* the document to another POST and is finished with 502 after one read and
\* one write, while the winner made its four calls.
C15_Witness ==
  \E p \in Procs, q \in Procs :
    /\ nfault = 0 /\ p # q
    /\ proc[p].pc = "done" /\ proc[p].method = "POST" /\ proc[p].status = 502
    /\ proc[p].docWrite = "rej" /\ proc[p].nget = 1 /\ proc[p].nput = 1
    /\ proc[q].pc = "done" /\ proc[q].method = "POST" /\ proc[q].status = 200
    /\ proc[q].id = proc[p].id /\ proc[q].nget = 2 /\ proc[q].nput = 2

\* ------------------------------------------------------------------ C16
\* The indexes of a list whose entry carries id.
Positions(list, id) == {i \in 1..Len(list) : list[i].id = id}

\* new is old with the entry for id replaced at its index by one with the
\* given name and stamp, or, when old has none, with that entry appended.
UpsertedInPlace(old, new, id, name, now) ==
  IF Positions(old, id) # {}
  THEN LET idx == CHOOSE i \in Positions(old, id) : \A j \in Positions(old, id) : i <= j IN
       /\ Len(new) = Len(old)
       /\ \A i \in 1..Len(old) : i # idx => new[i] = old[i]
       /\ new[idx].id = id /\ new[idx].name = name /\ new[idx].updatedAt = now
  ELSE /\ Len(new) = Len(old) + 1
       /\ \A i \in 1..Len(old) : new[i] = old[i]
       /\ new[Len(new)] = Entry(id, name, now)

\* C16: the list a POST prepares at its manifest load is the loaded list
\* with the entry for its id replaced in place, or appended when there was
\* none, every other entry in its place and unchanged; and the manifest a
\* POST answered 200 has saved is that list.
C16_UpsertPreservesPosition ==
  [][\A p \in Procs :
       /\ (proc[p].pc = "post_man" /\ proc'[p].pc = "post_save")
          => UpsertedInPlace(loadManifest(manifest, FALSE).list, proc'[p].mlist,
                             proc[p].id, NameOf(proc[p].state), proc'[p].now)
       /\ (proc[p].pc = "post_save" /\ Answers(p) /\ proc'[p].status = 200)
          => (/\ manifest'.exists /\ IsArrayText(manifest'.text)
              /\ parseList(manifest'.text) = proc[p].mlist)]_vars

\* C16's case is reached: a POST answered 200 has replaced the first of at
\* least two entries in place (the entry after it carries an older stamp)
\* and another POST has appended.
C16_Witness ==
  \E p \in Procs :
    /\ proc[p].pc = "done" /\ proc[p].method = "POST" /\ proc[p].status = 200
    /\ Len(ListNow) >= 2
    /\ ListNow[1].id = proc[p].id /\ ListNow[1].updatedAt = 1
    /\ ListNow[2].updatedAt = 0 /\ ListNow[2].id # proc[p].id

\* ------------------------------------------------------------------ C17
\* C17: a manifest load of a POST that finds a file that is not a JSON array
\* yields the empty list (so the prepared list is the POST's entry alone)
\* and the file's hash; one that finds no file yields the empty list and no
\* hash.  The save of a POST that loaded such a file carries that hash: when
\* the manifest was written by another request since the load, the save
\* leaves it as it is and the POST does not answer 200; it answers 502 unless
\* the save's fetch rejected.
C17_CorruptOverwriteGuarded ==
  [][\A p \in Procs :
       /\ (proc[p].pc = "post_man" /\ proc'[p].pc = "post_save")
          => (/\ proc'[p].mfound = "corrupt"
                   => (/\ manifest.exists /\ ~IsArrayText(manifest.text)
                       /\ proc'[p].mexists /\ proc'[p].msha = Sha(manifest.text)
                       /\ proc'[p].mlist
                            = <<Entry(proc[p].id, NameOf(proc[p].state), proc'[p].now)>>)
              /\ proc'[p].mfound = "absent"
                   => (/\ ~manifest.exists
                       /\ ~proc'[p].mexists /\ proc'[p].msha = NoSha
                       /\ proc'[p].mlist
                            = <<Entry(proc[p].id, NameOf(proc[p].state), proc'[p].now)>>))
       /\ (/\ proc[p].pc = "post_save" /\ Answers(p)
           /\ proc[p].mfound = "corrupt" /\ proc[p].manRace # "no")
          => (/\ proc[p].msha.some
              /\ manifest' = manifest
              /\ proc'[p].status # 200
              /\ proc'[p].manWrite # "thrown"
                   => (proc'[p].manWrite = "rej" /\ proc'[p].status = 502))]_vars

\* C17's case is reached: with no backend fault, a POST that loaded a
\* manifest that was not a JSON array had its save rejected after another
\* POST replaced the manifest, whose entry is in the manifest now.
C17_Witness ==
  \E p \in Procs, q \in Procs :
    /\ nfault = 0 /\ p # q
    /\ proc[p].pc = "done" /\ proc[p].method = "POST" /\ proc[p].mfound = "corrupt"
    /\ proc[p].manRace = "other" /\ proc[p].manWrite = "rej" /\ proc[p].status = 502
    /\ proc[q].pc = "done" /\ proc[q].method = "POST" /\ proc[q].status = 200
    /\ proc[q].mfound = "corrupt" /\ proc[q].id # proc[p].id
    /\ EntriesOf(ListNow, proc[q].id) = 1 /\ EntriesOf(ListNow, proc[p].id) = 0

\* ------------------------------------------------------------------ C18
\* Slot p makes a backend call in this step.
Moves(p) == proc[p].pc \notin {"idle", "done"} /\ proc'[p].pc # proc[p].pc

\* C18: the document of an id changes only in the accepted document write of
\* a POST of the id, which leaves the POST's state as its content (created
\* when there was none, replaced otherwise), and in the accepted document
\* delete of a DELETE of the id, which takes it from present to absent; a
\* write or delete that is not accepted, and every other step, leaves every
\* document as it is.
C18_PerIdStateMachine ==
  [][/\ \A k \in DOMAIN docs :
          docs'[k] # docs[k] =>
            \E p \in Procs :
              /\ Moves(p) /\ proc[p].id = k /\ proc'[p].docWrite = "ok"
              /\ \/ /\ proc[p].method = "POST" /\ proc[p].pc = "post_put"
                    /\ docs'[k] = File(JSONstringify(proc[p].state))
                 \/ /\ proc[p].method = "DELETE" /\ proc[p].pc = "del_del"
                    /\ docs[k].exists /\ docs'[k] = Absent
     /\ \A p \in Procs :
          (Moves(p) /\ proc[p].pc \in {"post_put", "del_del"})
            => IF proc'[p].docWrite = "ok"
               THEN docs'[proc[p].id] = (IF proc[p].method = "POST"
                                         THEN File(JSONstringify(proc[p].state))
                                         ELSE Absent)
               ELSE docs' = docs
    ]_vars

\* C18's case is reached: a document that was present had its content
\* replaced by a POST and was then removed by a DELETE.
C18_Witness ==
  \E p \in Procs, q \in Procs :
    /\ proc[p].pc = "done" /\ proc[p].method = "POST" /\ proc[p].dfound = "present"
    /\ proc[p].docWrite = "ok" /\ proc[p].state = JNull
    /\ proc[q].method = "DELETE" /\ proc[q].id = proc[p].id /\ proc[q].docWrite = "ok"
    /\ ~docs[proc[p].id].exists

\* ------------------------------------------------------------------ C19
\* C19: a step of a GET (of a document or of the listing) leaves the
\* documents and the manifest as they are and the request has made no write
\* or delete call; a GET of a document that is answered without a fault
\* answers from the document file alone: exists true with the document's
\* state when the file exists, exists false with state null when it does
\* not, whatever the manifest lists.
C19_ReadsArePure ==
  [][\A p \in Procs :
       (proc[p].method = "GET" /\ Moves(p))
       => (/\ docs' = docs /\ manifest' = manifest
           /\ proc'[p].nput = 0 /\ proc'[p].ndel = 0
           /\ proc'[p].docWrite = "none" /\ proc'[p].manWrite = "none"
           /\ ~proc[p].list => proc'[p].mfound = "none"
           /\ (~proc[p].list /\ nfault' = nfault)
                => (/\ proc'[p].pc = "done" /\ proc'[p].status = 200
                    /\ IF docs[proc[p].id].exists
                       THEN /\ proc'[p].body.exists = "true"
                            /\ proc'[p].body.state = JSONparse(docs[proc[p].id].text)
                       ELSE /\ proc'[p].body.exists = "false"
                            /\ proc'[p].body.state = JNull))]_vars

\* C19's case is reached: a GET answered with the document of an id the
\* manifest has no entry for (a POST of the id wrote the document and failed
\* at the manifest).
C19_Witness ==
  \E p \in Procs, q \in Procs :
    /\ proc[p].pc = "done" /\ proc[p].method = "GET" /\ ~proc[p].list
    /\ proc[p].status = 200 /\ proc[p].body.exists = "true"
    /\ proc[p].body.state = JVal("obj", "str", "Sales")
    /\ docs[proc[p].id].exists /\ EntriesOf(ListNow, proc[p].id) = 0
    /\ proc[q].pc = "done" /\ proc[q].method = "POST" /\ proc[q].id = proc[p].id
    /\ proc[q].docWrite = "ok" /\ proc[q].status # 200

\* ------------------------------------------------------------------ C20
\* The entries of a manifest file that carry id, in their order.
EntriesIn(file, id) ==
  SelectSeq(loadManifest(file, FALSE).list, LAMBDA x : x.id = id)

\* A step of the request in slot p leaves the document of every other id as
\* it is.
OtherDocumentsKept(p) ==
  Moves(p) => \A k \in DOMAIN docs : k # proc[p].id => docs'[k] = docs[k]

\* The manifest save of the POST or DELETE in slot p, when the request
\* answers 200, leaves the entries of every other id as they are.
OtherEntriesKept(p) ==
  (/\ proc[p].pc \in {"post_save", "del_save"} /\ Answers(p)
   /\ proc'[p].status = 200)
    => \A k \in DOMAIN docs :
         k # proc[p].id => EntriesIn(manifest', k) = EntriesIn(manifest, k)

\* C20 as stated: a request for an id never changes the document of another
\* id, and the manifest save of a POST or DELETE that answers 200 never adds,
\* changes or removes the entry of another id.
C20_Original ==
  [][\A p \in Procs : OtherDocumentsKept(p) /\ OtherEntriesKept(p)]_vars

\* C20, amended: the same for the documents; for the manifest, when the
\* manifest file existed at the request's load (the save carries its hash),
\* or the repository rejects a PUT without hash to a file that exists.
C20_IsolationBetweenIds ==
  [][\A p \in Procs :
       /\ OtherDocumentsKept(p)
       /\ (proc[p].msha.some \/ ~noShaOverwrites) => OtherEntriesKept(p)]_vars

\* C20's case is reached: with no backend fault, two overlapping POSTs of
\* different ids have both answered 200, the second having loaded the
\* manifest the first saved, and the manifest holds both entries.
C20_Witness ==
  \E p \in Procs, q \in Procs :
    /\ nfault = 0 /\ hist.overlapped
    /\ proc[p].pc = "done" /\ proc[p].method = "POST" /\ proc[p].status = 200
    /\ proc[q].pc = "done" /\ proc[q].method = "POST" /\ proc[q].status = 200
    /\ proc[p].id # proc[q].id
    /\ proc[p].mfound = "absent" /\ proc[q].mfound = "array"
    /\ EntriesOf(ListNow, proc[p].id) = 1 /\ EntriesOf(ListNow, proc[q].id) = 1
    /\ docs[proc[p].id].exists /\ docs[proc[q].id].exists

====
